---- MODULE Spec2Model ----
(***************************************************************************)
(* A model of the CMYK-APP decode pipeline.                                *)
(*                                                                         *)
(*  - decoder_worker.js : the decode/demux context (worker): sessions,     *)
(*    the keyframe gate, the batch scheduler, decoder (re)configuration,   *)
(*    reset with backoff, completion detection and teardown.               *)
(*  - app.js (src/unnamed/part_000) : the consumer context: the frame      *)
(*    queue and the render scheduler.                                      *)
(*                                                                         *)
(* The specifications share the variables:                                 *)
(*    Spec           one worker session, under any interleaving of         *)
(*                   messages, demuxer callbacks, timers, promise          *)
(*                   settlements and decode failures                       *)
(*    SpecSupersede  sessions superseding one another, the decode engine   *)
(*                   working                                               *)
(*    SpecReset      one session whose decode() calls throw, with several  *)
(*                   sample arrays: the reset path                         *)
(*    SpecScenarioB  the worker fed one 30-sample array at 1920x1080       *)
(*    SpecGate       one session, the first keyframe inside a batch, and   *)
(*                   the 20 samples at 640x480 of Scenario A               *)
(*    SpecScenarioC  one session whose decode() calls throw, one keyframe  *)
(*                   window delivered in up to two arrays                  *)
(*    SpecRelay      superseding sessions with the engine's frame output   *)
(*    SpecForce      one session at 640x480 fed arrays of 70 and 130       *)
(*                   samples without a keyframe: the forced gate           *)
(*    SpecChain      one session in which configuration may fail and       *)
(*                   decode() may throw: the unconfigured-batch retry and  *)
(*                   the reset path together                               *)
(*    SpecConfig     one session against an engine with fixed answers to   *)
(*                   isConfigSupported                                     *)
(*    SpecConsumer   the consumer context                                  *)
(*    SpecBatchSize  calculateOptimalBatchSize applied to drawn tracks     *)
(*                                                                         *)
(* The worker's environment: processingId (Date.now()) is the number of    *)
(* the session; the demuxer (mp4box) and the decode engine (WebCodecs)     *)
(* are not part of the sources, so the demuxer delivers its callbacks at   *)
(* any time after the handler that fed it, decode() may throw, and the     *)
(* promises of isConfigSupported and flush settle in any order and either  *)
(* way.  A handler runs to its next await in one step; the successive      *)
(* isConfigSupported awaits of one initializeDecoder call are one step.    *)
(* Time is measured in milliseconds by the timers' due times.              *)
(***************************************************************************)
EXTENDS Integers, Sequences, FiniteSets, TLC

\* ------------------------------------------------------------------------
\* Program constants
\* ------------------------------------------------------------------------
Null == 0

Px1080p == 2073600
Px720p == 921600
Px480p == 307200
BatchHuge == 5
BatchLarge == 10
BatchMedium == 15
BatchSmall == 20
BatchDefault == 10

QuiescenceMs == 5000
CheckPeriodMs == 1000
EosDebounceMs == 1000
BackoffBaseMs == 1000
BackoffCapMs == 10000
ResetSlackMs == 100
ErrorThreshold == 5
ForceThreshold == 100

\* ------------------------------------------------------------------------
\* Bounds of the model
\* ------------------------------------------------------------------------
MaxFrames == 3      \* frames the worker hands to the consumer in a run
MaxTs == 2          \* frame timestamps and playback positions are 0..MaxTs

Min(a, b) == IF a < b THEN a ELSE b

\* ------------------------------------------------------------------------
\* Tracks.  videoTrack is null (NoTrack) or a track reported by the demuxer.
\* ------------------------------------------------------------------------
NoTrack == [id |-> 0, track_width |-> 0, track_height |-> 0, description |-> FALSE]

MkTrack(w, h, d) == [id |-> 1, track_width |-> w, track_height |-> h, description |-> d]

\* ------------------------------------------------------------------------
\* calculateOptimalBatchSize (decoder_worker.js 240-257)
\* ------------------------------------------------------------------------
calculateOptimalBatchSize_ge(track) ==
    IF track = NoTrack THEN BatchDefault
    ELSE LET pixelCount == track.track_width * track.track_height
         IN  IF pixelCount >= Px1080p THEN BatchHuge
             ELSE IF pixelCount >= Px720p THEN BatchLarge
             ELSE IF pixelCount >= Px480p THEN BatchMedium
             ELSE BatchSmall

calculateOptimalBatchSize(track) ==
    IF track = NoTrack THEN BatchDefault
    ELSE LET pixelCount == track.track_width * track.track_height
         IN  IF pixelCount > Px1080p THEN BatchHuge
             ELSE IF pixelCount > Px720p THEN BatchLarge
             ELSE IF pixelCount > Px480p THEN BatchMedium
             ELSE BatchSmall

\* ------------------------------------------------------------------------
\* Frame queue helpers (app.js)
\* ------------------------------------------------------------------------
\* Array.prototype.sort with the comparator a.timestamp - b.timestamp: a
\* stable sort, computed here by insertion.
RECURSIVE InsertByTimestamp(_, _)
InsertByTimestamp(e, s) ==
    IF s = <<>> THEN <<e>>
    ELSE IF e.timestamp < Head(s).timestamp THEN <<e>> \o s
    ELSE <<Head(s)>> \o InsertByTimestamp(e, Tail(s))

RECURSIVE StableSort(_)
StableSort(q) ==
    IF q = <<>> THEN <<>>
    ELSE InsertByTimestamp(q[Len(q)], StableSort(SubSeq(q, 1, Len(q) - 1)))

SortByTimestamp_missing(q) == q

SortByTimestamp(q) == StableSort(q)

\* The scan of renderLoop (app.js 418-429), newest to oldest: the index of the
\* frame to render (1-based), or 0 when frameToRender stays null.
RECURSIVE ScanFrom(_, _, _, _, _)
ScanFrom(q, i, videoTimeMicro, last, seek) ==
    IF i < 1 THEN 0
    ELSE IF q[i].timestamp <= videoTimeMicro
         THEN (IF seek \/ q[i].timestamp > last THEN i ELSE 0)
         ELSE ScanFrom(q, i - 1, videoTimeMicro, last, seek)

SelectFrame_newest(q, videoTimeMicro, last, seek) ==
    IF Len(q) >= 1 /\ (seek \/ q[Len(q)].timestamp > last) THEN Len(q) ELSE 0

SelectFrame_nonstrict(q, videoTimeMicro, last, seek) ==
    ScanFrom(q, Len(q), videoTimeMicro, last - 1, seek)

SelectFrame(q, videoTimeMicro, last, seek) ==
    ScanFrom(q, Len(q), videoTimeMicro, last, seek)

\* ------------------------------------------------------------------------
\* State
\* ------------------------------------------------------------------------
VARIABLES
    \* consumer context (app.js)
    decoderWorker,          \* a worker exists
    frameQueue,             \* sequence of [frame, timestamp]
    currentFrameRequest,    \* the handle of a requested render tick is held
    animationFrames,        \* renderLoop callbacks the browser has yet to run
    decodingFinished,
    lastRenderedTimestamp,
    seeking,
    paused,                 \* originalVideo.paused
    currentTime,            \* originalVideo.currentTime, in microseconds
    webglInitialized,       \* webglInitialized && glProgram
    surface,                \* timestamp drawn on the canvas, -1 when cleared
    frameClosed,            \* per frame, how many times close() released it
    framesReceived,         \* frames handed over so far
    picked,                 \* what the last render tick selected
    \* calculateOptimalBatchSize applied to a drawn track
    supports,               \* the decode engine's isConfigSupported answers,
                            \* where the engine is taken to be fixed
    bsTrack,
    bsResult,
    \* worker context (decoder_worker.js): the globals of lines 16-26
    processingId,           \* session number; 0 before the first initialize
    isProcessingComplete,
    sinceLastSample,        \* Date.now() - lastSampleTime, capped past QuiescenceMs
    sampleCount,
    abortController,        \* Null or the session whose controller it is
    keyframeReceived,
    decoderResetAttempts,
    checkIntervals,         \* sessions whose interval id is in the array
    videoDecoder,           \* Null or an index into decoders
    decoders,               \* every VideoDecoder instance ever constructed
    mp4boxfile,
    videoTrack,
    \* worker context: the event loop
    timers,                 \* pending setTimeout/setInterval callbacks, oldest first
    tasks,                  \* async functions suspended at an await
    aborted,                \* sessions whose AbortSignal is aborted
    listeners,              \* sessions whose signal has the 'abort' listener
    \* worker context: what has been observed so far
    emitted,                \* per session, decodeComplete messages posted
    completion,             \* per session, the completion triggers and their runs
    gateViolation,          \* decode() was called with keyframeReceived false
    resetDelays,            \* backoff delays of the session's reset triggers
    stopHandled,            \* sessions whose stop has finished closeDecoder
    batchesRun,             \* batch timers run since the last initialize
    samplesSkipped,         \* samples passed over without a decode() call
    posted,                 \* the trackInfo and newFrame messages posted, in order
    produced,               \* every VideoFrame the decode engine has output
    held,                   \* the frames the worker context owns
    lastBatch,              \* what the last run of the batch body did
    errorStreak,            \* decode() calls that threw since one last succeeded
    resetStreaks,           \* errorStreak at each reset trigger of the session
    lastConfig,             \* what the last initializeDecoder call settled on
    lastRetry,              \* what the last batch did after awaiting initializeDecoder
    windowErrors,           \* decode() calls that threw since the gate last opened
    resetWait,              \* the last reset trigger and its delay
    chain                   \* the batches of the session's arrays, in the order run

cvars == <<decoderWorker, frameQueue, currentFrameRequest, animationFrames,
           decodingFinished,
           lastRenderedTimestamp, seeking, paused, currentTime, webglInitialized,
           surface, frameClosed, framesReceived, picked>>
bvars == <<bsTrack, bsResult, supports>>
wvars == <<processingId, isProcessingComplete, sinceLastSample, sampleCount,
           abortController, keyframeReceived, decoderResetAttempts, checkIntervals,
           videoDecoder, decoders, mp4boxfile, videoTrack, timers, tasks, aborted,
           listeners, emitted, completion, gateViolation, resetDelays, stopHandled,
           batchesRun, samplesSkipped, posted, produced, held, lastBatch,
           errorStreak, resetStreaks, lastConfig, lastRetry, windowErrors,
           resetWait, chain>>
vars == <<cvars, bvars, wvars>>

\* `drawn` is how the draw of the selected frame went: "ok", "failed" (the
\* upload or draw threw), "notready" (WebGL not set up), "none" (no frame)
NoPick == [sel |-> FALSE, T |-> 0, timestamp |-> 0, index |-> 0, drawn |-> "none"]

InitConsumer ==
    /\ decoderWorker = FALSE
    /\ frameQueue = <<>>
    /\ currentFrameRequest = FALSE
    /\ animationFrames = 0
    /\ decodingFinished = FALSE
    /\ lastRenderedTimestamp = -1
    /\ seeking = FALSE
    /\ paused = TRUE
    /\ currentTime = 0
    /\ webglInitialized = FALSE
    /\ surface = -1
    /\ frameClosed = [f \in 1..MaxFrames |-> 0]
    /\ framesReceived = 0
    /\ picked = NoPick

InitBatchIdle ==
    /\ bsTrack = NoTrack
    /\ bsResult = 0
    /\ supports = [v \in 1..3 |-> FALSE]

\* ------------------------------------------------------------------------
\* Consumer context (app.js)
\* ------------------------------------------------------------------------
\* startRenderingLoop (397-402, 536): the value of currentFrameRequest it
\* leaves; a pending request is kept, otherwise one is made.
startRenderingLoop(request) == IF request THEN request ELSE TRUE

\* a loop started whether or not a request is held
requestedBy_unguarded(request) == 1

\* the callbacks startRenderingLoop registers with requestAnimationFrame
\* (397-402, 536): none when a request is held
requestedBy(request) == IF request THEN 0 ELSE 1

\* processVideo (178-234): a new worker, the queue dropped, the pending tick
\* cancelled, the video paused.
ProcessVideo ==
    /\ decoderWorker' = TRUE
    /\ frameQueue' = <<>>
    /\ decodingFinished' = FALSE
    /\ currentFrameRequest' = FALSE
    /\ animationFrames' = IF currentFrameRequest /\ animationFrames > 0
                          THEN animationFrames - 1 ELSE animationFrames
    /\ surface' = -1
    /\ paused' = TRUE
    /\ lastRenderedTimestamp' = -1
    /\ seeking' = FALSE
    /\ picked' = NoPick
    /\ UNCHANGED <<currentTime, webglInitialized, frameClosed, framesReceived>>
    /\ UNCHANGED <<bvars, wvars>>

\* setupWebGL (279-339), run once the file is read; it returns early, leaving
\* webglInitialized false, when a shader does not compile or link.
SetupWebGL ==
    /\ decoderWorker
    /\ ~webglInitialized
    /\ \E ok \in BOOLEAN : webglInitialized' = ok
    /\ UNCHANGED <<decoderWorker, frameQueue, currentFrameRequest, decodingFinished,
                   lastRenderedTimestamp, seeking, paused, currentTime, surface,
                   frameClosed, framesReceived, picked>>
    /\ UNCHANGED animationFrames
    /\ UNCHANGED <<bvars, wvars>>

\* handleWorkerMessage, case 'newFrame' (249-264)
NewFrame ==
    /\ decoderWorker
    /\ framesReceived < MaxFrames
    /\ \E ts \in 0..MaxTs :
          LET f == framesReceived + 1
              pushed == Append(frameQueue, [frame |-> f, timestamp |-> ts])
          IN  /\ frameQueue' = SortByTimestamp(pushed)
              /\ framesReceived' = f
    /\ currentFrameRequest' = IF ~currentFrameRequest /\ (~paused \/ seeking)
                              THEN startRenderingLoop(currentFrameRequest)
                              ELSE currentFrameRequest
    /\ animationFrames' = IF ~currentFrameRequest /\ (~paused \/ seeking)
                          THEN animationFrames + requestedBy(currentFrameRequest)
                          ELSE animationFrames
    /\ UNCHANGED <<decoderWorker, decodingFinished, lastRenderedTimestamp, seeking,
                   paused, currentTime, webglInitialized, surface, frameClosed, picked>>
    /\ UNCHANGED <<bvars, wvars>>

\* handleWorkerMessage, case 'decodeComplete' (269-273)
DecodeCompleteMsg ==
    /\ decoderWorker
    /\ ~decodingFinished
    /\ decodingFinished' = TRUE
    /\ UNCHANGED <<decoderWorker, frameQueue, currentFrameRequest,
                   lastRenderedTimestamp, seeking, paused, currentTime,
                   webglInitialized, surface, frameClosed, framesReceived, picked>>
    /\ UNCHANGED animationFrames
    /\ UNCHANGED <<bvars, wvars>>

\* 'play' listener (95-98)
Play ==
    /\ paused
    /\ paused' = FALSE
    /\ currentFrameRequest' = startRenderingLoop(currentFrameRequest)
    /\ animationFrames' = animationFrames + requestedBy(currentFrameRequest)
    /\ UNCHANGED <<decoderWorker, frameQueue, decodingFinished, lastRenderedTimestamp,
                   seeking, currentTime, webglInitialized, surface, frameClosed,
                   framesReceived, picked>>
    /\ UNCHANGED <<bvars, wvars>>

\* 'pause' listener (99-102): the loop keeps running.
Pause ==
    /\ ~paused
    /\ paused' = TRUE
    /\ UNCHANGED <<decoderWorker, frameQueue, currentFrameRequest, decodingFinished,
                   lastRenderedTimestamp, seeking, currentTime, webglInitialized,
                   surface, frameClosed, framesReceived, picked>>
    /\ UNCHANGED animationFrames
    /\ UNCHANGED <<bvars, wvars>>

\* 'seeking' listener (103-110); the seek moves the playback position.
Seeking ==
    /\ \E t \in 0..MaxTs : currentTime' = t
    /\ seeking' = TRUE
    /\ lastRenderedTimestamp' = -1
    /\ UNCHANGED <<decoderWorker, frameQueue, currentFrameRequest, decodingFinished,
                   paused, webglInitialized, surface, frameClosed, framesReceived,
                   picked>>
    /\ UNCHANGED animationFrames
    /\ UNCHANGED <<bvars, wvars>>

\* 'seeked' listener (111-115)
Seeked ==
    /\ seeking
    /\ seeking' = FALSE
    /\ currentFrameRequest' = startRenderingLoop(currentFrameRequest)
    /\ animationFrames' = animationFrames + requestedBy(currentFrameRequest)
    /\ UNCHANGED <<decoderWorker, frameQueue, decodingFinished, lastRenderedTimestamp,
                   paused, currentTime, webglInitialized, surface, frameClosed,
                   framesReceived, picked>>
    /\ UNCHANGED <<bvars, wvars>>

\* The playback clock of the video element advances while it plays.
ClockAdvance ==
    /\ ~paused
    /\ currentTime < MaxTs
    /\ currentTime' = currentTime + 1
    /\ UNCHANGED <<decoderWorker, frameQueue, currentFrameRequest, decodingFinished,
                   lastRenderedTimestamp, seeking, paused, webglInitialized, surface,
                   frameClosed, framesReceived, picked>>
    /\ UNCHANGED animationFrames
    /\ UNCHANGED <<bvars, wvars>>

CloseRange_selected(q, lo, hi) ==
    [f \in 1..MaxFrames |->
        IF q[hi].frame = f THEN Min(frameClosed[f] + 1, 2) ELSE frameClosed[f]]

\* close() on frames lo..hi of the queue
CloseRange(q, lo, hi) ==
    [f \in 1..MaxFrames |->
        IF \E i \in lo..hi : q[i].frame = f
        THEN Min(frameClosed[f] + 1, 2) ELSE frameClosed[f]]

\* the removal of the successful draw, which takes the older entries too
RemoveAt_older(q, i) == SubSeq(q, i + 1, Len(q))

\* splice(i, 1) of line 515 (positions from 1)
RemoveAt(q, i) == SubSeq(q, 1, i - 1) \o SubSeq(q, i + 1, Len(q))

RenderLoopEnds_paused == paused /\ frameQueue = <<>>

\* the test of lines 407-411 that ends the loop
RenderLoopEnds == paused /\ frameQueue = <<>> /\ decodingFinished

ClearOnSeek_never(seek, shown) == shown

\* lines 522-528: without a frame to render the canvas is cleared while
\* seeking
ClearOnSeek(seek, shown) == IF seek THEN -1 ELSE shown

\* renderLoop (404-533): one display tick.  drawOk is whether the upload and
\* draw of the selected frame succeed.
RenderTick ==
    /\ animationFrames > 0
    /\ animationFrames' = IF RenderLoopEnds THEN animationFrames - 1
                          ELSE animationFrames
    /\ IF RenderLoopEnds
       THEN /\ currentFrameRequest' = FALSE
            /\ UNCHANGED <<frameQueue, lastRenderedTimestamp, surface, frameClosed,
                           picked>>
       ELSE LET videoTimeMicro == currentTime
                frameIndex == SelectFrame(frameQueue, videoTimeMicro,
                                          lastRenderedTimestamp, seeking)
                chosen == [sel |-> TRUE, T |-> videoTimeMicro,
                           timestamp |-> frameQueue[frameIndex].timestamp,
                           index |-> frameIndex, drawn |-> "notready"]
            IN  /\ currentFrameRequest' = TRUE
                /\ IF frameIndex = 0
                   THEN /\ picked' = [NoPick EXCEPT !.T = videoTimeMicro]
                        /\ surface' = ClearOnSeek(seeking, surface)
                        /\ UNCHANGED <<frameQueue, lastRenderedTimestamp, frameClosed>>
                   ELSE IF ~webglInitialized
                   THEN /\ picked' = chosen
                        /\ UNCHANGED <<frameQueue, lastRenderedTimestamp, surface,
                                       frameClosed>>
                   ELSE \E drawOk \in BOOLEAN :
                          IF drawOk
                          THEN /\ picked' = [chosen EXCEPT !.drawn = "ok"]
                               /\ surface' = frameQueue[frameIndex].timestamp
                               /\ lastRenderedTimestamp' = frameQueue[frameIndex].timestamp
                               /\ frameClosed' = CloseRange(frameQueue, 1, frameIndex)
                               /\ frameQueue' = SubSeq(frameQueue, frameIndex + 1,
                                                       Len(frameQueue))
                          ELSE /\ picked' = [chosen EXCEPT !.drawn = "failed"]
                               /\ frameClosed' = CloseRange(frameQueue, frameIndex,
                                                            frameIndex)
                               /\ frameQueue' = RemoveAt(frameQueue, frameIndex)
                               /\ UNCHANGED <<lastRenderedTimestamp, surface>>
    /\ UNCHANGED <<decoderWorker, decodingFinished, seeking, paused, currentTime,
                   webglInitialized, framesReceived>>
    /\ UNCHANGED <<bvars, wvars>>

NextConsumer ==
    \/ ProcessVideo
    \/ SetupWebGL
    \/ NewFrame
    \/ DecodeCompleteMsg
    \/ Play
    \/ Pause
    \/ Seeking
    \/ Seeked
    \/ ClockAdvance
    \/ RenderTick

\* ------------------------------------------------------------------------
\* calculateOptimalBatchSize on drawn tracks
\* ------------------------------------------------------------------------
StandardWidths == {640, 641, 1280, 1281, 1920, 1921, 3840}
StandardHeights == {480, 481, 720, 721, 1080, 1081, 2160}
EdgePixelCounts == {Px480p - 1, Px480p, Px480p + 1, Px720p - 1, Px720p, Px720p + 1,
                    Px1080p - 1, Px1080p, Px1080p + 1}

TrackInputs ==
    {MkTrack(w, h, FALSE) : w \in StandardWidths, h \in StandardHeights}
    \cup {MkTrack(1, p, FALSE) : p \in EdgePixelCounts}
    \cup {NoTrack}

InitBatchSize ==
    /\ bsTrack \in TrackInputs
    /\ bsResult = 0
    /\ supports = [v \in 1..3 |-> FALSE]

ComputeBatchSize ==
    /\ bsResult = 0
    /\ bsResult' = calculateOptimalBatchSize(bsTrack)
    /\ UNCHANGED <<bsTrack, supports>>
    /\ UNCHANGED <<cvars, wvars>>

NextBatchSize == ComputeBatchSize

\* ------------------------------------------------------------------------
\* Worker context (decoder_worker.js): bounds and inputs
\* ------------------------------------------------------------------------
MaxSessions == 2    \* initialize messages the worker receives
MaxArrays == 1      \* sample arrays one demuxer delivers
MaxSamples == 7     \* length of a delivered sample array
MaxDecoders == 3    \* VideoDecoder instances constructed in a run
MaxResetArrays == 2 \* sample arrays delivered when the reset path is explored

Sessions == 0..MaxSessions

NoFile == [id |-> 0, state |-> "none", arrays |-> 0, eos |-> FALSE]

\* A sample array: its length, the indices with is_sync, the indices whose
\* data is empty, the session whose demuxer delivered it, and its number
\* among the arrays that demuxer delivered.
NoArr == [sess |-> 0, seq |-> 0, len |-> 0, keys |-> {}, empty |-> {}]

Track4K == MkTrack(3840, 2160, TRUE)
Track1080p == MkTrack(1920, 1080, TRUE)
Track480p == MkTrack(640, 480, TRUE)
Track4KPlain == MkTrack(3840, 2160, FALSE)   \* no codec description in the file

WorkerTracks == {Track4K}

Array(len, keys) == [sess |-> 0, seq |-> 0, len |-> len, keys |-> keys, empty |-> {}]

SampleArrays == {Array(MaxSamples, K) : K \in {{}, {0}}}

Triggers == {"stop", "interval", "eos"}

NoTask == [kind |-> "none", caller |-> "none", sess |-> 0, dec |-> 0, sig |-> 0,
           fail |-> FALSE, track |-> NoTrack, arr |-> NoArr, start |-> 0,
           errors |-> 0, end |-> 0]

\* A run of the batch body (317-445): the session it ran in, the array, the
\* range startIndex..endIndex-1 it was given, whether the gate was open and
\* the decoder configured when it began, whether the gate was open after
\* lines 317-360, the indices decode() was called with, in order, and
\* whether it ended in a reset trigger; the errorCount it was called with,
\* the samples the session had passed over before it, whether the decoder
\* had been given no chunk before it, and the type of each chunk submitted.
NoBatch == [n |-> 0, arr |-> NoArr, start |-> 0, end |-> 0, gate |-> FALSE,
            configured |-> FALSE, opened |-> FALSE, calls |-> <<>>, reset |-> FALSE,
            errors |-> 0, skipped |-> 0, fresh |-> FALSE, types |-> <<>>]

\* An initializeDecoder call that got past its isConfigSupported awaits:
\* whether the track has a description, the variant configured (0: none), the
\* instance constructed (Null: none), whether an error message was posted.
NoConfig == [n |-> 0, description |-> FALSE, chosen |-> 0, decoder |-> Null,
             error |-> FALSE]

\* A batch that found the decoder unconfigured and awaited initializeDecoder
\* (284-300): the range and the errorCount it was called with, the length of
\* its array, whether the decoder was configured afterwards, the index the
\* batch was then run again from and the decode() calls of that run, and the
\* start index and the errorCount of the batch scheduled instead (-1: none).
NoRetry == [n |-> 0, start |-> 0, end |-> 0, len |-> 0, errors |-> 0,
            configured |-> FALSE, retried |-> -1, submitted |-> 0,
            next |-> -1, passed |-> -1]

\* A batch of the chain of an array (266-270): the array's session and
\* number and length, the range startIndex..endIndex-1, and whether decode()
\* was called with a sample of it.
Batch(arr, startIndex, endIndex) ==
    [sess |-> arr.sess, seq |-> arr.seq, len |-> arr.len, start |-> startIndex,
     end |-> endIndex, sub |-> FALSE]

\* The last reset trigger (404-424): the instance that was current, whether
\* a timer of line 413 is still pending, and whether decode() was called on
\* that instance while one was.
NoWait == [dec |-> Null, pending |-> FALSE, submitted |-> FALSE]

Timer(kind, due, sess, arr, start, errors) ==
    [kind |-> kind, due |-> due, sess |-> sess, arr |-> arr, start |-> start,
     errors |-> errors]

\* The worker state as one record, so that the handlers compose as the code's
\* calls do.
W ==
    [processingId |-> processingId, isProcessingComplete |-> isProcessingComplete,
     sinceLastSample |-> sinceLastSample, sampleCount |-> sampleCount,
     abortController |-> abortController, keyframeReceived |-> keyframeReceived,
     decoderResetAttempts |-> decoderResetAttempts, checkIntervals |-> checkIntervals,
     videoDecoder |-> videoDecoder, decoders |-> decoders, mp4boxfile |-> mp4boxfile,
     videoTrack |-> videoTrack, timers |-> timers, tasks |-> tasks,
     aborted |-> aborted, listeners |-> listeners, emitted |-> emitted,
     completion |-> completion, gateViolation |-> gateViolation,
     resetDelays |-> resetDelays, stopHandled |-> stopHandled,
     batchesRun |-> batchesRun, samplesSkipped |-> samplesSkipped,
     posted |-> posted, produced |-> produced, held |-> held,
     lastBatch |-> lastBatch, errorStreak |-> errorStreak,
     resetStreaks |-> resetStreaks, lastConfig |-> lastConfig,
     lastRetry |-> lastRetry, windowErrors |-> windowErrors,
     resetWait |-> resetWait, chain |-> chain]

Install(w) ==
    /\ processingId' = w.processingId
    /\ isProcessingComplete' = w.isProcessingComplete
    /\ sinceLastSample' = w.sinceLastSample
    /\ sampleCount' = w.sampleCount
    /\ abortController' = w.abortController
    /\ keyframeReceived' = w.keyframeReceived
    /\ decoderResetAttempts' = w.decoderResetAttempts
    /\ checkIntervals' = w.checkIntervals
    /\ videoDecoder' = w.videoDecoder
    /\ decoders' = w.decoders
    /\ mp4boxfile' = w.mp4boxfile
    /\ videoTrack' = w.videoTrack
    /\ timers' = w.timers
    /\ tasks' = w.tasks
    /\ aborted' = w.aborted
    /\ listeners' = w.listeners
    /\ emitted' = w.emitted
    /\ completion' = w.completion
    /\ gateViolation' = w.gateViolation
    /\ resetDelays' = w.resetDelays
    /\ stopHandled' = w.stopHandled
    /\ batchesRun' = w.batchesRun
    /\ samplesSkipped' = w.samplesSkipped
    /\ posted' = w.posted
    /\ produced' = w.produced
    /\ held' = w.held
    /\ lastBatch' = w.lastBatch
    /\ errorStreak' = w.errorStreak
    /\ resetStreaks' = w.resetStreaks
    /\ lastConfig' = w.lastConfig
    /\ lastRetry' = w.lastRetry
    /\ windowErrors' = w.windowErrors
    /\ resetWait' = w.resetWait
    /\ chain' = w.chain

InitWorker ==
    /\ processingId = 0
    /\ isProcessingComplete = FALSE
    /\ sinceLastSample = 0
    /\ sampleCount = 0
    /\ abortController = Null
    /\ keyframeReceived = FALSE
    /\ decoderResetAttempts = 0
    /\ checkIntervals = {}
    /\ videoDecoder = Null
    /\ decoders = <<>>
    /\ mp4boxfile = NoFile
    /\ videoTrack = NoTrack
    /\ timers = <<>>
    /\ tasks = <<>>
    /\ aborted = {}
    /\ listeners = {}
    /\ emitted = [s \in Sessions |-> 0]
    /\ completion = [s \in Sessions |-> [fired |-> 0, runs |-> 0, emits |-> 0]]
    /\ gateViolation = FALSE
    /\ resetDelays = <<>>
    /\ stopHandled = {}
    /\ batchesRun = 0
    /\ samplesSkipped = 0
    /\ posted = <<>>
    /\ produced = <<>>
    /\ held = {}
    /\ lastBatch = NoBatch
    /\ errorStreak = 0
    /\ resetStreaks = <<>>
    /\ lastConfig = NoConfig
    /\ lastRetry = NoRetry
    /\ windowErrors = 0
    /\ resetWait = NoWait
    /\ chain = <<>>

\* ------------------------------------------------------------------------
\* Decoder instances
\* ------------------------------------------------------------------------
IsOpen(w, d) == d # Null /\ w.decoders[d].state # "closed"

\* videoDecoder && videoDecoder.state === 'configured'
IsConfigured(w) ==
    w.videoDecoder # Null /\ w.decoders[w.videoDecoder].state = "configured"

\* the current instance is configured and decode() was never called on it
FreshDecoder(w) == IsConfigured(w) /\ w.decoders[w.videoDecoder].first = "none"

\* if (videoDecoder) { if (state !== 'closed') close(); videoDecoder = null }
\* (initializeDecoder 464-473, resetDecoder 609-618)
CloseExisting(w) ==
    IF w.videoDecoder = Null THEN w
    ELSE [w EXCEPT !.decoders[w.videoDecoder].state = "closed",
                   !.videoDecoder = Null]

\* checkIntervals.forEach(clearInterval); checkIntervals = []
ClearIntervals(w) ==
    LET Kept(t) == ~(t.kind = "check" /\ t.sess \in w.checkIntervals)
    IN  [w EXCEPT !.timers = SelectSeq(w.timers, Kept),
                  !.checkIntervals = {}]

\* ------------------------------------------------------------------------
\* closeDecoder (821-850) and the 'abort' listener (213-226), which call each
\* other.  closeDecoder runs to its await of flush() when the decoder is
\* open, and to its end otherwise; `cont` carries what the caller does after.
\* A run is attributed to the session in which closeDecoder was called.
\* ------------------------------------------------------------------------
RECURSIVE closeDecoder(_, _, _)
RECURSIVE closeDecoderTail(_, _, _)
RECURSIVE abort(_, _)

\* lines 833-849, after the flush/close attempt
closeDecoderTail(w, sess, caller) ==
    LET w1 == IF w.abortController # Null
              THEN [abort(w, w.abortController) EXCEPT !.abortController = Null]
              ELSE w
        w2 == ClearIntervals(w1)
    IN  [w2 EXCEPT !.keyframeReceived = FALSE,
                   !.decoderResetAttempts = 0,
                   !.emitted[sess] = @ + 1,
                   !.completion[sess].emits = IF caller \in Triggers THEN @ + 1 ELSE @,
                   !.stopHandled = IF caller = "stop" THEN @ \cup {sess} ELSE @,
                   !.videoDecoder = Null]

closeDecoder(w, caller, cont) ==
    LET sess == w.processingId
        w1 == IF caller \in Triggers
              THEN [w EXCEPT !.completion[sess].runs = @ + 1]
              ELSE w
    IN  IF IsOpen(w1, w1.videoDecoder)
        THEN [w1 EXCEPT !.tasks = Append(@, [cont EXCEPT !.kind = "flush",
                                                         !.caller = caller,
                                                         !.sess = sess,
                                                         !.dec = w1.videoDecoder])]
        ELSE closeDecoderTail(w1, sess, caller)

\* the listener of lines 213-226
abortListener(w) ==
    LET w1 == ClearIntervals(w)
    IN  IF ~w1.isProcessingComplete
        THEN closeDecoder([w1 EXCEPT !.isProcessingComplete = TRUE], "abort", NoTask)
        ELSE w1

\* AbortController.abort(): a no-op on an aborted signal, else the signal is
\* marked aborted and its listeners run synchronously.
abort(w, c) ==
    IF c \in w.aborted THEN w
    ELSE LET w1 == [w EXCEPT !.aborted = @ \cup {c}]
         IN  IF c \in w1.listeners THEN abortListener(w1) ELSE w1

\* A completion trigger fired (stop, quiescence, debounced end-of-stream).
Fired(w) == [w EXCEPT !.completion[w.processingId].fired = Min(@ + 1, 2)]

\* the guard shared by the three triggers: if (!isProcessingComplete) {
\*   isProcessingComplete = true; closeDecoder() }
completeOnce_unguarded(w, caller) ==
    closeDecoder([w EXCEPT !.isProcessingComplete = TRUE], caller, NoTask)

completeOnce(w, caller) ==
    IF ~w.isProcessingComplete
    THEN closeDecoder([w EXCEPT !.isProcessingComplete = TRUE], caller, NoTask)
    ELSE w

\* ------------------------------------------------------------------------
\* self.onmessage (36-233)
\* ------------------------------------------------------------------------
\* 'stop' (39-47)
stop(w) == completeOnce(Fired(w), "stop")

\* 'initialize' from line 86 on: the try block, with `signal` the handler's
\* own controller.  resetDemuxer is whether lines 81-83 run first.  `fail` is
\* whether the try block throws (fileBuffer.slice(0), line 168) once the
\* demuxer is created and before the interval and the listener are set up.
initializeTail(w, sig, fail, resetDemuxer) ==
    IF resetDemuxer /\ w.mp4boxfile = NoFile
    THEN w      \* mp4boxfile.stop() throws on null: the handler ends here
    ELSE LET w1 == IF resetDemuxer
                   THEN [w EXCEPT !.mp4boxfile = NoFile, !.videoTrack = NoTrack]
                   ELSE w
         IN  IF fail
             THEN closeDecoder(
                     [w1 EXCEPT !.mp4boxfile = [NoFile EXCEPT !.id = sig,
                                                             !.state = "unfed"]],
                     "initFail", NoTask)
             ELSE [w1 EXCEPT
                     !.mp4boxfile = [id |-> sig, state |-> "parsing", arrays |-> 0,
                                     eos |-> FALSE],
                     !.timers = Append(@, Timer("check", CheckPeriodMs, sig, NoArr, 0, 0)),
                     !.checkIntervals = @ \cup {sig},
                     !.listeners = @ \cup {sig}]

\* 'initialize' (49-84) up to its first await
initialize(w, fail) ==
    LET sig == w.processingId + 1
        w0 == [w EXCEPT !.processingId = sig,
                        !.isProcessingComplete = FALSE,
                        !.sinceLastSample = 0,
                        !.sampleCount = 0,
                        !.keyframeReceived = FALSE,
                        !.decoderResetAttempts = 0,
                        !.resetDelays = <<>>,
                        !.batchesRun = 0,
                        !.samplesSkipped = 0,
                        !.errorStreak = 0,
                        !.resetStreaks = <<>>,
                        !.windowErrors = 0,
                        !.resetWait = NoWait,
                        !.chain = <<>>]
        w1 == ClearIntervals(w0)
        w2 == IF w1.abortController # Null THEN abort(w1, w1.abortController) ELSE w1
        w3 == [w2 EXCEPT !.abortController = sig]
    IN  IF w3.mp4boxfile # NoFile
        THEN IF IsOpen(w3, w3.videoDecoder)
             THEN closeDecoder(w3, "initialize",
                               [NoTask EXCEPT !.sig = sig, !.fail = fail])
             ELSE initializeTail([w3 EXCEPT !.videoDecoder = Null], sig, fail, TRUE)
        ELSE initializeTail(w3, sig, fail, FALSE)

\* closeDecoder resumed after `await videoDecoder.flush()` (825-830), then
\* what its caller does next.  On resolution videoDecoder.close() runs on
\* whatever videoDecoder now is (a throw is caught).  The promise rejects when
\* the flushed instance was closed meanwhile, by the code or by the engine on
\* a decode error; then only the catch runs.
flushSettled(w, t, resolved) ==
    LET w1 == IF resolved
              THEN IF IsOpen(w, w.videoDecoder)
                   THEN [w EXCEPT !.decoders[w.videoDecoder].state = "closed"]
                   ELSE w
              ELSE [w EXCEPT !.decoders[t.dec].state = "closed"]
        w2 == closeDecoderTail(w1, t.sess, t.caller)
    IN  IF t.caller = "initialize"
        THEN initializeTail(w2, t.sig, t.fail, TRUE)
        ELSE w2

\* ------------------------------------------------------------------------
\* Decoder configuration (initializeDecoder 451-586, resetDecoder 592-654)
\* ------------------------------------------------------------------------
\* initializeDecoder up to its first await (isConfigSupported, 515): the
\* existing instance is closed and dropped.  `cont` says who awaits it.
initializeDecoderStart(w, cont) ==
    LET w1 == CloseExisting(w)
    IN  [w1 EXCEPT !.tasks = Append(@, [cont EXCEPT !.kind = "support",
                                                    !.sess = w.processingId])]

\* log(LogLevel.ERROR, ..) inside initializeDecoder (688-711): the message
\* is posted to the consumer with type 'error'.
logError(w) == [w EXCEPT !.lastConfig.error = TRUE]

\* the fallback trying the generic codec family before the codec string
\* without description
ChooseConfig_generic(description, acc) ==
    IF acc[1] THEN 1
    ELSE IF acc[3] THEN 3
    ELSE IF description /\ acc[2] THEN 2
    ELSE 0

\* The fallback of lines 510-570.  acc[v] is the decode engine's answer for
\* variant v: 1 the full config (with the description when there is one),
\* 2 the codec string without description, 3 the generic codec family.
\* The result is the variant configured, 0 when none is supported.
ChooseConfig(description, acc) ==
    IF acc[1] THEN 1
    ELSE IF description /\ acc[2] THEN 2
    ELSE IF acc[3] THEN 3
    ELSE 0

\* line 410
BackoffDelay(attempts) ==
    Min(BackoffBaseMs * (2 ^ attempts), BackoffCapMs)

\* ------------------------------------------------------------------------
\* processSamplesBatch (266-445)
\* ------------------------------------------------------------------------
Minimum(S) == CHOOSE x \in S : \A y \in S : x <= y

\* the gate with the `return` of line 353 missing
KeyframeGate_fallthrough(w, arr, startIndex, endIndex) ==
    IF w.keyframeReceived
    THEN [keyframeReceived |-> TRUE, proceed |-> TRUE, startIndex |-> startIndex]
    ELSE LET found == {i \in startIndex..(endIndex - 1) : i \in arr.keys}
         IN  IF found = {}
             THEN [keyframeReceived |-> FALSE, proceed |-> TRUE,
                   startIndex |-> startIndex]
             ELSE [keyframeReceived |-> TRUE, proceed |-> TRUE,
                   startIndex |-> Minimum(found)]

\* the gate with `startIndex = keyframeIndex` (line 358) missing
KeyframeGate_unmoved(w, arr, startIndex, endIndex) ==
    IF w.keyframeReceived
    THEN [keyframeReceived |-> TRUE, proceed |-> TRUE, startIndex |-> startIndex]
    ELSE LET found == {i \in startIndex..(endIndex - 1) : i \in arr.keys}
         IN  IF found = {}
             THEN [keyframeReceived |->
                      (/\ startIndex > ForceThreshold
                       /\ IsConfigured(w)
                       /\ startIndex < arr.len
                       /\ startIndex \notin arr.empty),
                   proceed |-> FALSE,
                   startIndex |-> startIndex]
             ELSE [keyframeReceived |-> TRUE, proceed |-> TRUE,
                   startIndex |-> startIndex]

\* Lines 317-360: the new value of keyframeReceived, whether the batch goes on
\* to the decode loop, and the index it starts from.
KeyframeGate(w, arr, startIndex, endIndex) ==
    IF w.keyframeReceived
    THEN [keyframeReceived |-> TRUE, proceed |-> TRUE, startIndex |-> startIndex]
    ELSE LET found == {i \in startIndex..(endIndex - 1) : i \in arr.keys}
         IN  IF found = {}
             THEN [keyframeReceived |->
                      (/\ startIndex > ForceThreshold
                       /\ IsConfigured(w)
                       /\ startIndex < arr.len
                       /\ startIndex \notin arr.empty),
                   proceed |-> FALSE,
                   startIndex |-> startIndex]
             ELSE [keyframeReceived |-> TRUE, proceed |-> TRUE,
                   startIndex |-> Minimum(found)]

scheduleNext_never(w, arr, endIndex, errorCount, delay) == w

\* the next batch scheduled without the test against samples.length
scheduleNext_always(w, arr, endIndex, errorCount, delay) ==
    [w EXCEPT !.timers = Append(@, Timer("batch", delay, arr.sess, arr,
                                         endIndex, errorCount))]

\* setTimeout(() => processSamplesBatch(samples, endIndex, ..), delay) when
\* endIndex < samples.length
scheduleNext(w, arr, endIndex, errorCount, delay) ==
    IF endIndex < arr.len
    THEN [w EXCEPT !.timers = Append(@, Timer("batch", delay, arr.sess, arr,
                                              endIndex, errorCount))]
    ELSE w

\* videoDecoder.decode(chunk) is called with a chunk of this type, built from
\* sample i
submit(w, type, i) ==
    [w EXCEPT !.decoders[w.videoDecoder].first = IF @ = "none" THEN type ELSE @,
              !.gateViolation = @ \/ ~w.keyframeReceived,
              !.lastBatch.calls = Append(@, i),
              !.lastBatch.types = Append(@, type),
              !.chain[Len(w.chain)].sub = TRUE,
              !.resetWait.submitted =
                  @ \/ (w.resetWait.pending /\ w.resetWait.dec = w.videoDecoder)]

\* decode() returned: the engine has queued the chunk.  Its timestamp
\* (sample.cts scaled to microseconds, line 367) is the sample's index here.
queued(w, arr, i) ==
    [w EXCEPT !.decoders[w.videoDecoder].pending =
                  Append(@, [timestamp |-> i, src |-> arr.sess]),
              !.errorStreak = 0]

\* decode() threw (line 398)
thrown(w) == [w EXCEPT !.errorStreak = @ + 1, !.windowErrors = @ + 1]

\* lines 404-424: the reset trigger
triggerReset(w, arr, endIndex, errorCount) ==
    LET backoffDelay == BackoffDelay(w.decoderResetAttempts)
        w1 == [w EXCEPT !.keyframeReceived = FALSE,
                        !.resetDelays = Append(@, backoffDelay),
                        !.resetStreaks = Append(@, w.errorStreak),
                        !.lastBatch.reset = TRUE,
                        !.resetWait = [dec |-> w.videoDecoder, pending |-> TRUE,
                                       submitted |-> FALSE],
                        !.timers = Append(@, Timer("reset", backoffDelay, arr.sess,
                                                   NoArr, 0, 0))]
    IN  scheduleNext(w1, arr, endIndex, errorCount, backoffDelay + ResetSlackMs)

\* the chunk type taken from is_sync alone
ChunkType_sync(w, arr, i, startIndex) ==
    IF i \in arr.keys THEN "key" ELSE "delta"

\* lines 372-388: the type of the chunk built from sample i, in a batch that
\* submits from startIndex, on a configured decoder
ChunkType(w, arr, i, startIndex) ==
    LET isKeyFrame == i \in arr.keys
        forceKeyFrame == i = startIndex /\ w.keyframeReceived /\ ~isKeyFrame
    IN  IF isKeyFrame \/ forceKeyFrame THEN "key" ELSE "delta"

\* The loop of lines 362-435 from index i, then lines 439-444.  `fails` are
\* the indices whose decode() call throws.
RECURSIVE decodeLoop(_, _, _, _, _, _, _)
decodeLoop(w, arr, i, startIndex, endIndex, errorCount, fails) ==
    IF i >= endIndex THEN scheduleNext(w, arr, endIndex, errorCount, 0)
    ELSE IF w.videoTrack = NoTrack
    THEN \* videoTrack.timescale throws; the outer catch counts it
         decodeLoop([w EXCEPT !.samplesSkipped = @ + 1], arr, i + 1, startIndex,
                    endIndex, errorCount + 1, fails)
    ELSE IF IsConfigured(w)
    THEN LET w1 == submit(w, ChunkType(w, arr, i, startIndex), i)
         IN  IF i \in fails
             THEN IF errorCount + 1 > ErrorThreshold
                  THEN triggerReset(thrown(w1), arr, endIndex, errorCount + 1)
                  ELSE decodeLoop(thrown(w1), arr, i + 1, startIndex, endIndex,
                                  errorCount + 1, fails)
             ELSE decodeLoop(queued(w1, arr, i), arr, i + 1, startIndex, endIndex,
                             errorCount, fails)
    ELSE \* decoder not ready, sample dropped
         decodeLoop([w EXCEPT !.samplesSkipped = @ + 1], arr, i + 1, startIndex,
                    endIndex, errorCount + 1, fails)

\* lines 317-445, once the decoder check of 272-315 has let the batch through
batchBody(w, arr, startIndex, endIndex, errorCount, fails) ==
    LET g == KeyframeGate(w, arr, startIndex, endIndex)
        w1 == [w EXCEPT !.keyframeReceived = g.keyframeReceived,
                        !.windowErrors = IF g.keyframeReceived /\ ~w.keyframeReceived
                                         THEN 0 ELSE @,
                        !.lastBatch = [NoBatch EXCEPT !.n = 1,
                                                      !.arr = arr,
                                                      !.start = startIndex,
                                                      !.end = endIndex,
                                                      !.gate = w.keyframeReceived,
                                                      !.opened = g.keyframeReceived,
                                                      !.configured = IsConfigured(w),
                                                      !.errors = errorCount,
                                                      !.skipped = w.samplesSkipped,
                                                      !.fresh = FreshDecoder(w)],
                        !.chain = Append(@, Batch(arr, startIndex, endIndex))]
    IN  IF g.proceed
        THEN decodeLoop([w1 EXCEPT !.samplesSkipped = @ + (g.startIndex - startIndex)],
                        arr, g.startIndex, g.startIndex, endIndex, errorCount, fails)
        ELSE scheduleNext([w1 EXCEPT !.samplesSkipped = @ + (endIndex - startIndex)],
                          arr, endIndex, errorCount, 0)

processSamplesBatch(w, arr, startIndex, errorCount, fails) ==
    LET batchSize == calculateOptimalBatchSize(w.videoTrack)
        endIndex == Min(startIndex + batchSize, arr.len)
    IN  IF ~IsConfigured(w) /\ w.videoTrack # NoTrack
        THEN initializeDecoderStart(w,
                [NoTask EXCEPT !.caller = "batch", !.track = w.videoTrack,
                               !.arr = arr, !.start = startIndex,
                               !.errors = errorCount, !.end = endIndex])
        ELSE batchBody(w, arr, startIndex, endIndex, errorCount, fails)

\* What runs after `await initializeDecoder(..)` returns, by caller:
\* processSamplesBatch 288-300, the reset timer's callback 413-416.
afterInitialize(w, t, fails) ==
    IF t.caller = "batch"
    THEN LET call == [NoRetry EXCEPT !.n = 1, !.start = t.start, !.end = t.end,
                                     !.len = t.arr.len, !.errors = t.errors]
         IN  IF IsConfigured(w)
             THEN LET r == processSamplesBatch(w, t.arr, t.start, t.errors, fails)
                  IN  [r EXCEPT !.lastRetry =
                          [call EXCEPT !.configured = TRUE,
                                       !.retried = r.lastBatch.start,
                                       !.submitted = Len(r.lastBatch.calls)]]
             ELSE LET r == scheduleNext(
                              [w EXCEPT !.samplesSkipped = @ + (t.end - t.start),
                                        !.chain = Append(@, Batch(t.arr, t.start,
                                                                  t.end))],
                              t.arr, t.end, t.errors, 0)
                      scheduled == Len(r.timers) > Len(w.timers)
                      timer == r.timers[Len(r.timers)]
                  IN  [r EXCEPT !.lastRetry =
                          [call EXCEPT !.next = IF scheduled THEN timer.start ELSE -1,
                                       !.passed = IF scheduled THEN timer.errors
                                                  ELSE -1]]
    ELSE IF t.caller = "reset"
    THEN [w EXCEPT !.decoderResetAttempts = @ + 1]
    ELSE w

\* initializeDecoder resumed with the engine's answers (510-586)
initializeDecoderResume(w, t, acc, fails) ==
    LET chosen == ChooseConfig(t.track.description, acc)
        call == [NoConfig EXCEPT !.n = 1,
                                 !.description = t.track.description,
                                 !.chosen = chosen]
        w1 == IF chosen = 0
              THEN logError([w EXCEPT !.lastConfig = call])
              ELSE [w EXCEPT !.decoders = Append(@, [state |-> "configured",
                                                     first |-> "none",
                                                     sess |-> w.processingId,
                                                     pending |-> <<>>]),
                             !.videoDecoder = Len(w.decoders) + 1,
                             !.lastConfig = [call EXCEPT
                                                !.decoder = Len(w.decoders) + 1]]
    IN  afterInitialize(w1, t, fails)

\* resetDecoder(videoTrack) up to its await of isConfigSupported (592-637);
\* without a track it returns and the timer callback counts the attempt.
resetDecoderStart(w0) ==
    LET w == [w0 EXCEPT !.resetWait.pending =
                            \E i \in 1..Len(w0.timers) : w0.timers[i].kind = "reset"]
    IN
    IF w.videoTrack = NoTrack
    THEN [w EXCEPT !.decoderResetAttempts = @ + 1]
    ELSE LET w1 == CloseExisting(w)
         IN  [w1 EXCEPT !.keyframeReceived = FALSE,
                        !.tasks = Append(@, [NoTask EXCEPT !.kind = "resetSupport",
                                                           !.caller = "reset",
                                                           !.sess = w.processingId,
                                                           !.track = w.videoTrack])]

\* resetDecoder resumed (639-648)
resetDecoderResume(w, t, supported) ==
    IF ~supported
    THEN [w EXCEPT !.decoderResetAttempts = @ + 1]
    ELSE initializeDecoderStart(w, [NoTask EXCEPT !.caller = "reset",
                                                  !.track = t.track])

\* ------------------------------------------------------------------------
\* Messages to the consumer and the frame relay
\* ------------------------------------------------------------------------
\* A trackInfo or newFrame message: the session whose file it is about (the
\* demuxer that reported the track or delivered the frame's sample), and for
\* newFrame the frame and data.timestamp.
Message(type, src, frame, timestamp) ==
    [type |-> type, src |-> src, frame |-> frame, timestamp |-> timestamp]

\* self.postMessage(message, transfer): the frames of the transfer list
\* leave the worker context with the message
postMessage(w, message, transfer) ==
    [w EXCEPT !.posted = Append(@, message),
              !.held = @ \ transfer]

\* handleFrame with the transfer list left out
handleFrame_copy(w, frame) ==
    postMessage(w, Message("newFrame", w.produced[frame].src, frame,
                           w.produced[frame].timestamp), {})

\* handleFrame (660-672)
handleFrame(w, frame) ==
    postMessage(w, Message("newFrame", w.produced[frame].src, frame,
                           w.produced[frame].timestamp), {frame})

\* onReady that posts no trackInfo
onReady_silent(w, track) ==
    IF track = NoTrack
    THEN [w EXCEPT !.videoTrack = NoTrack, !.mp4boxfile.state = "novideo"]
    ELSE initializeDecoderStart(
            [w EXCEPT !.videoTrack = track, !.mp4boxfile.state = "started"],
            [NoTask EXCEPT !.caller = "onReady", !.track = track])

\* mp4boxfile.onReady (96-119); NoTrack is a file without a video track
onReady(w, track) ==
    IF track = NoTrack
    THEN [w EXCEPT !.videoTrack = NoTrack, !.mp4boxfile.state = "novideo"]
    ELSE initializeDecoderStart(
            postMessage([w EXCEPT !.videoTrack = track,
                                  !.mp4boxfile.state = "started"],
                        Message("trackInfo", w.mp4boxfile.id, 0, 0),
                        {}),
            [NoTask EXCEPT !.caller = "onReady", !.track = track])

\* ------------------------------------------------------------------------
\* Timers.  The callback that runs next is the oldest among those due
\* soonest; time then stands at its due time.
\* ------------------------------------------------------------------------
NextTimer(ts) ==
    CHOOSE i \in 1..Len(ts) :
        /\ \A j \in 1..Len(ts) : ts[j].due >= ts[i].due
        /\ \A j \in 1..(i - 1) : ts[j].due > ts[i].due

\* the state once timer i has come due and been taken off the list
Elapse(w, i) ==
    LET d == w.timers[i].due
        rest == [j \in 1..(Len(w.timers) - 1) |->
                    LET t == IF j < i THEN w.timers[j] ELSE w.timers[j + 1]
                    IN  [t EXCEPT !.due = @ - d]]
    IN  [w EXCEPT !.timers = rest,
                  !.sinceLastSample = Min(@ + d, QuiescenceMs + 1)]

\* the callback without the test `sampleCount > 0`
checkIntervalFire_anycount(w, t) ==
    IF t.sess \in w.aborted
    THEN [w EXCEPT !.checkIntervals = @ \ {t.sess}]
    ELSE IF w.sinceLastSample > QuiescenceMs
    THEN completeOnce(Fired([w EXCEPT !.checkIntervals = @ \ {t.sess}]), "interval")
    ELSE [w EXCEPT !.timers = Append(@, [t EXCEPT !.due = CheckPeriodMs])]

\* the setInterval callback of lines 176-207, for the interval of session
\* t.sess, whose `signal` is that session's
checkIntervalFire(w, t) ==
    IF t.sess \in w.aborted
    THEN [w EXCEPT !.checkIntervals = @ \ {t.sess}]
    ELSE IF w.sinceLastSample > QuiescenceMs /\ w.sampleCount > 0
    THEN completeOnce(Fired([w EXCEPT !.checkIntervals = @ \ {t.sess}]), "interval")
    ELSE [w EXCEPT !.timers = Append(@, [t EXCEPT !.due = CheckPeriodMs])]

\* the setTimeout callback of lines 131-136
eosTimerFire(w) == completeOnce(Fired(w), "eos")

\* ------------------------------------------------------------------------
\* Worker actions.  The environment's choices are parameters: the tracks a
\* file may hold, the sample arrays a demuxer may deliver and how many, the
\* decode() calls that throw, the decode engine's answers.
\* ------------------------------------------------------------------------
\* The decode() calls of one batch that throw, by the engine's failure mode:
\* none of them, the first one, or all of them.
FailureModes == {"none", "first", "all"}

FailSets(modes, w, arr, startIndex) ==
    LET endIndex == Min(startIndex + calculateOptimalBatchSize(w.videoTrack), arr.len)
    IN  {IF m = "none" THEN {}
         ELSE IF m = "first" THEN {startIndex}
         ELSE startIndex..(endIndex - 1) : m \in modes}

\* isConfigSupported's answers for the three variants of ChooseConfig
Answers == [1..3 -> BOOLEAN]

\* message 'initialize'; `outcomes` are the possible outcomes of the try block
\* (TRUE: it throws)
InitializeOf(limit, outcomes) ==
    /\ processingId < limit
    /\ \E fail \in outcomes : Install(initialize(W, fail))
    /\ UNCHANGED <<cvars, bvars>>

\* message 'stop', from the first initialize on
Stop ==
    /\ processingId >= 1
    /\ Install(stop(W))
    /\ UNCHANGED <<cvars, bvars>>

\* mp4boxfile.onReady (96-119); NoTrack among `tracks` is a file without a
\* video track.
OnReadyOf(tracks) ==
    /\ mp4boxfile.state = "parsing"
    /\ \E track \in tracks : Install(onReady(W, track))
    /\ UNCHANGED <<cvars, bvars>>

\* mp4boxfile.onSamples (140-163)
OnSamplesOf(arrays, limit) ==
    /\ mp4boxfile.state = "started"
    /\ mp4boxfile.arrays < limit
    /\ \E a \in arrays :
          LET arr == [a EXCEPT !.sess = mp4boxfile.id,
                               !.seq = mp4boxfile.arrays + 1]
          IN  Install([W EXCEPT !.sinceLastSample = 0,
                                !.sampleCount = @ + arr.len,
                                !.mp4boxfile.arrays = @ + 1,
                                !.timers = Append(@, Timer("batch", 0, arr.sess, arr,
                                                           0, 0))])
    /\ UNCHANGED <<cvars, bvars>>

\* mp4boxfile.onComplete (126-138)
OnComplete ==
    /\ mp4boxfile.state = "started"
    /\ ~mp4boxfile.eos
    /\ Install([W EXCEPT !.mp4boxfile.eos = TRUE,
                         !.timers = IF isProcessingComplete THEN @
                                    ELSE Append(@, Timer("eos", EosDebounceMs,
                                                         mp4boxfile.id, NoArr, 0, 0))])
    /\ UNCHANGED <<cvars, bvars>>

\* a batch timer comes due: processSamplesBatch(samples, start, .., errors)
FireBatchOf(modes) ==
    /\ timers # <<>>
    /\ LET i == NextTimer(timers)
           t == timers[i]
           w == [Elapse(W, i) EXCEPT !.batchesRun = @ + 1]
       IN  /\ t.kind = "batch"
           /\ \E fails \in FailSets(modes, w, t.arr, t.start) :
                 Install(processSamplesBatch(w, t.arr, t.start, t.errors, fails))
    /\ UNCHANGED <<cvars, bvars>>

\* the quiescence interval comes due
FireCheck ==
    /\ timers # <<>>
    /\ LET i == NextTimer(timers)
           t == timers[i]
       IN  /\ t.kind = "check"
           /\ Install(checkIntervalFire(Elapse(W, i), t))
    /\ UNCHANGED <<cvars, bvars>>

\* the debounced end-of-stream timer comes due
FireEos ==
    /\ timers # <<>>
    /\ LET i == NextTimer(timers)
       IN  /\ timers[i].kind = "eos"
           /\ Install(eosTimerFire(Elapse(W, i)))
    /\ UNCHANGED <<cvars, bvars>>

\* a reset timer comes due (413-416)
FireReset ==
    /\ timers # <<>>
    /\ LET i == NextTimer(timers)
       IN  /\ timers[i].kind = "reset"
           /\ Install(resetDecoderStart(Elapse(W, i)))
    /\ UNCHANGED <<cvars, bvars>>

WithoutTask(w, i) == [w EXCEPT !.tasks = RemoveAt(w.tasks, i)]

\* VideoDecoder.isConfigSupported settles inside initializeDecoder
SupportSettleOf(answers, modes) ==
    /\ \E i \in 1..Len(tasks) :
          LET t == tasks[i]
              w == WithoutTask(W, i)
          IN  /\ t.kind = "support"
              /\ \E acc \in answers :
                    /\ ChooseConfig(t.track.description, acc) = 0
                          \/ Len(decoders) < MaxDecoders
                    /\ \E fails \in (IF t.caller = "batch"
                                     THEN FailSets(modes, w, t.arr, t.start)
                                     ELSE {{}}) :
                          Install(initializeDecoderResume(w, t, acc, fails))
    /\ UNCHANGED <<cvars, bvars>>

\* VideoDecoder.isConfigSupported settles inside resetDecoder
ResetSupportSettle ==
    /\ \E i \in 1..Len(tasks) :
          /\ tasks[i].kind = "resetSupport"
          /\ \E supported \in BOOLEAN :
                Install(resetDecoderResume(WithoutTask(W, i), tasks[i], supported))
    /\ UNCHANGED <<cvars, bvars>>

\* videoDecoder.flush() settles inside closeDecoder; the flushes of one
\* instance settle in the order they were made.
FlushSettle ==
    /\ \E i \in 1..Len(tasks) :
          LET t == tasks[i]
          IN  /\ t.kind = "flush"
              /\ \A j \in 1..(i - 1) : ~(tasks[j].kind = "flush" /\ tasks[j].dec = t.dec)
              /\ \E resolved \in BOOLEAN :
                    /\ resolved => IsOpen(W, t.dec)
                    /\ Install(flushSettled(WithoutTask(W, i), t, resolved))
    /\ UNCHANGED <<cvars, bvars>>

\* The engine outputs the frame decoded from the oldest chunk queued in an
\* open instance and calls the output callback with it.  The frame carries
\* the chunk's timestamp.
DecoderOutput ==
    /\ Len(produced) < MaxFrames
    /\ \E d \in 1..Len(decoders) :
          /\ decoders[d].state = "configured"
          /\ decoders[d].pending # <<>>
          /\ LET chunk == Head(decoders[d].pending)
                 frame == Len(produced) + 1
             IN  Install(handleFrame(
                    [W EXCEPT !.decoders[d].pending = Tail(@),
                              !.produced = Append(@, [timestamp |-> chunk.timestamp,
                                                      src |-> chunk.src,
                                                      dec |-> d]),
                              !.held = @ \cup {frame}],
                    frame))
    /\ UNCHANGED <<cvars, bvars>>

\* The engine reports a decode error asynchronously: handleError (678-680)
\* logs it and the engine has closed the instance.
EngineError ==
    /\ \E d \in 1..Len(decoders) :
          /\ decoders[d].state = "configured"
          /\ decoders[d].first # "none"
          /\ Install([W EXCEPT !.decoders[d].state = "closed"])
    /\ UNCHANGED <<cvars, bvars>>

\* ------------------------------------------------------------------------
\* One processing session against an arbitrary file and decode engine
\* ------------------------------------------------------------------------
Initialize == InitializeOf(1, BOOLEAN)

OnReady == OnReadyOf(WorkerTracks \cup {NoTrack})

OnSamples == OnSamplesOf(SampleArrays, MaxArrays)

FireBatch == FireBatchOf(FailureModes)

SupportSettle == SupportSettleOf(Answers, FailureModes)

Next ==
    \/ Initialize
    \/ Stop
    \/ OnReady
    \/ OnSamples
    \/ OnComplete
    \/ FireBatch
    \/ FireCheck
    \/ FireEos
    \/ FireReset
    \/ SupportSettle
    \/ ResetSupportSettle
    \/ FlushSettle
    \/ EngineError

Init == InitConsumer /\ InitBatchIdle /\ InitWorker

Spec == Init /\ [][Next]_vars

\* ------------------------------------------------------------------------
\* Sessions superseding one another, against a decode engine that works
\* ------------------------------------------------------------------------
InitializeAgain == InitializeOf(MaxSessions, {FALSE})

OnReadySupersede == OnReadyOf(WorkerTracks)

OnSamplesSupersede == OnSamplesOf({Array(MaxSamples, {0})}, 1)

FireBatchSupersede == FireBatchOf({"none"})

SupportSettleSupersede == SupportSettleOf({[v \in 1..3 |-> TRUE]}, {"none"})

NextSupersede ==
    \/ InitializeAgain
    \/ OnReadySupersede
    \/ OnSamplesSupersede
    \/ OnComplete
    \/ FireBatchSupersede
    \/ FireCheck
    \/ FireEos
    \/ SupportSettleSupersede
    \/ FlushSettle

SpecSupersede == Init /\ [][NextSupersede]_vars

\* ------------------------------------------------------------------------
\* One session whose decode engine throws: the reset path
\* ------------------------------------------------------------------------
InitializeReset == InitializeOf(1, {FALSE})

SupportSettleReset == SupportSettleOf({[v \in 1..3 |-> TRUE]}, FailureModes)

OnSamplesReset == OnSamplesOf({Array(MaxSamples, {0, BatchHuge})}, MaxResetArrays)

NextReset ==
    \/ InitializeReset
    \/ OnReadySupersede
    \/ OnSamplesReset
    \/ FireBatch
    \/ FireCheck
    \/ FireReset
    \/ SupportSettleReset
    \/ ResetSupportSettle
    \/ FlushSettle

SpecReset == Init /\ [][NextReset]_vars

\* ------------------------------------------------------------------------
\* Scenario B: one session, a 1920x1080 track, one array of 30 samples none
\* of which is a keyframe.
\* ------------------------------------------------------------------------
InitializeB == InitializeOf(1, {FALSE})

OnReadyB == OnReadyOf({Track1080p})

OnSamplesB == OnSamplesOf({Array(30, {})}, 1)

NextScenarioB ==
    \/ InitializeB
    \/ OnReadyB
    \/ OnSamplesB
    \/ OnComplete
    \/ FireBatch
    \/ FireCheck
    \/ FireEos
    \/ SupportSettle
    \/ FlushSettle

SpecScenarioB == Init /\ [][NextScenarioB]_vars

\* ------------------------------------------------------------------------
\* The keyframe gate: one session, a 3840x2160 or a 640x480 track, one array
\* whose first keyframe is not its first sample, or the 20 samples of
\* Scenario A.
\* ------------------------------------------------------------------------
OnReadyGate == OnReadyOf({Track4K, Track480p})

OnSamplesGate == OnSamplesOf({Array(MaxSamples, {2, 4}), Array(BatchSmall, {0})}, 1)

NextGate ==
    \/ InitializeReset
    \/ OnReadyGate
    \/ OnSamplesGate
    \/ FireBatch
    \/ FireCheck
    \/ FireReset
    \/ SupportSettleReset
    \/ ResetSupportSettle
    \/ FlushSettle
    \/ EngineError

SpecGate == Init /\ [][NextGate]_vars

\* ------------------------------------------------------------------------
\* Scenario C: one session whose decode() calls throw; the demuxer delivers
\* the samples of one keyframe window in up to two arrays.
\* ------------------------------------------------------------------------
OnSamplesC == OnSamplesOf({Array(MaxSamples, {0}), Array(MaxSamples, {})},
                          MaxResetArrays)

NextScenarioC ==
    \/ InitializeReset
    \/ OnReadySupersede
    \/ OnSamplesC
    \/ FireBatch
    \/ FireCheck
    \/ FireReset
    \/ SupportSettleReset
    \/ ResetSupportSettle
    \/ FlushSettle

SpecScenarioC == Init /\ [][NextScenarioC]_vars

\* ------------------------------------------------------------------------
\* The frame relay: sessions superseding one another, the decode engine
\* working and delivering frames; each demuxer delivers one array of two
\* samples.
\* ------------------------------------------------------------------------
OnSamplesRelay == OnSamplesOf({Array(2, {0})}, 1)

NextRelay ==
    \/ InitializeAgain
    \/ Stop
    \/ OnReady
    \/ OnSamplesRelay
    \/ FireBatchSupersede
    \/ SupportSettleSupersede
    \/ FlushSettle
    \/ DecoderOutput

SpecRelay == Init /\ [][NextRelay]_vars

\* ------------------------------------------------------------------------
\* Decoder configuration: one session against a decode engine whose answer
\* for each configuration variant is fixed, any of the eight combinations;
\* the track comes with or without a codec description.
\* ------------------------------------------------------------------------
InitEngine ==
    /\ InitConsumer
    /\ bsTrack = NoTrack
    /\ bsResult = 0
    /\ supports \in Answers
    /\ InitWorker

OnReadyConfig == OnReadyOf({Track4K, Track4KPlain})

SupportSettleConfig == SupportSettleOf({supports}, {"none"})

NextConfig ==
    \/ InitializeReset
    \/ Stop
    \/ OnReadyConfig
    \/ OnSamplesSupersede
    \/ FireBatchSupersede
    \/ SupportSettleConfig
    \/ FlushSettle

SpecConfig == InitEngine /\ [][NextConfig]_vars

\* ------------------------------------------------------------------------
\* The forced gate: one session on a 640x480 track (batch size 20) whose
\* file holds no keyframe; the demuxer delivers up to two arrays, of 70 or of
\* 130 samples.
\* ------------------------------------------------------------------------
OnReadyForce == OnReadyOf({Track480p})

OnSamplesForce == OnSamplesOf({Array(70, {}), Array(130, {})}, MaxResetArrays)

NextForce ==
    \/ InitializeReset
    \/ Stop
    \/ OnReadyForce
    \/ OnSamplesForce
    \/ FireBatchSupersede
    \/ FireCheck
    \/ SupportSettleSupersede
    \/ FlushSettle

SpecForce == Init /\ [][NextForce]_vars

\* ------------------------------------------------------------------------
\* One batch chain: one session on a 3840x2160 track (batch size 5) whose
\* demuxer delivers one array, either 17 samples with keyframes at 0, 10 and
\* 15 or 7 samples of which sample 5 has an empty payload; decode() may
\* throw, and the engine accepts every configuration variant or none.
\* ------------------------------------------------------------------------
EmptyAtBatchStart == [Array(MaxSamples, {0}) EXCEPT !.empty = {BatchHuge}]

OnSamplesChain == OnSamplesOf({Array(17, {0, 10, 15}), EmptyAtBatchStart}, 1)

SupportSettleChain ==
    SupportSettleOf({[v \in 1..3 |-> ok] : ok \in BOOLEAN}, FailureModes)

NextChain ==
    \/ InitializeReset
    \/ OnReadySupersede
    \/ OnSamplesChain
    \/ FireBatch
    \/ FireCheck
    \/ FireReset
    \/ SupportSettleChain
    \/ ResetSupportSettle
    \/ FlushSettle

SpecChain == Init /\ [][NextChain]_vars

\* ------------------------------------------------------------------------
\* Specifications of the other contexts
\* ------------------------------------------------------------------------
SpecConsumer == Init /\ [][NextConsumer]_vars

InitTracks == InitConsumer /\ InitBatchSize /\ InitWorker

SpecBatchSize == InitTracks /\ [][NextBatchSize]_vars

\* ------------------------------------------------------------------------
\* Properties
\* ------------------------------------------------------------------------
\* C1: videoDecoder.decode is never called while keyframeReceived is false,
\* whatever the interleaving of batches, decoder configurations and resets.
GateClosedNoDecode == gateViolation = FALSE

\* a chunk was submitted, and a reset trigger has since closed the gate again
GateExercised ==
    /\ resetDelays # <<>>
    /\ \E d \in 1..Len(decoders) : decoders[d].first = "key"

\* C2: the frame queue is sorted ascending by timestamp in every reachable
\* state of the consumer.
FrameQueueSorted ==
    \A i \in 1..(Len(frameQueue) - 1) :
        frameQueue[i].timestamp <= frameQueue[i + 1].timestamp

\* a frame that arrived later sits before one that arrived earlier
FrameArrivedOutOfOrder ==
    \E i, j \in 1..Len(frameQueue) :
        /\ i < j
        /\ frameQueue[i].frame > frameQueue[j].frame
        /\ frameQueue[i].timestamp < frameQueue[j].timestamp

\* C3: a render tick never selects a frame whose timestamp is greater than
\* the playback position T it read.
NeverSelectsFutureFrame == picked.sel => picked.timestamp <= picked.T

\* a tick selected a frame and left a frame later than T in the queue
SelectedWithFutureFrameQueued ==
    /\ picked.sel
    /\ \E i \in 1..Len(frameQueue) : frameQueue[i].timestamp > picked.T

\* C4: decodeComplete is emitted exactly once for a session, over any
\* sequence of stop, end of stream, quiescence, initialization failure and
\* superseding initialize: here, never more than once.
DecodeCompleteAtMostOnce == \A s \in Sessions : emitted[s] <= 1

\* C5: within one session, completion triggers racing one another (stop, the
\* quiescence timeout, the debounced end of stream) cause exactly one run of
\* closeDecoder and one decodeComplete; a second trigger is a no-op.
CompletionIdempotent ==
    \A s \in Sessions :
        /\ completion[s].runs <= 1
        /\ completion[s].emits <= completion[s].runs
        /\ completion[s].fired >= 1 /\ s = processingId => completion[s].runs = 1

\* two triggers fired in a session, the first of them a timer's, and the
\* teardown has run to its end
SecondTriggerFired ==
    \E s \in Sessions :
        /\ completion[s].fired = 2
        /\ s \notin stopHandled
        /\ completion[s].runs = 1
        /\ completion[s].emits = 1

\* C6: when a stop message has been handled for a session, none of the
\* session's timers is pending any more (quiescence interval, end-of-stream
\* timer, batch timers, reset timer), so that no further batch is processed.
StopCancelsTimers ==
    [][(processingId \in stopHandled' /\ processingId \notin stopHandled)
          => (\A i \in 1..Len(timers') : timers'[i].sess # processingId)]_vars

\* C7: when initialize supersedes a session, the previous session is retired
\* (decoder closed, timers cancelled) before the new demuxer exists.
PreviousSessionRetired ==
    mp4boxfile.id = processingId =>
        /\ \A i \in 1..Len(timers) : timers[i].sess = processingId
        /\ \A d \in 1..Len(decoders) :
              decoders[d].sess < processingId => decoders[d].state = "closed"

\* C8: the N-th reset trigger of a session (N = 0, 1, 2, ...) uses the delay
\* min(1000 * 2^N, 10000).
BackoffDoubles ==
    \A n \in 1..Len(resetDelays) :
        resetDelays[n] = Min(1000 * (2 ^ (n - 1)), 10000)

\* C9: the batch size is 5 above 2,073,600 pixels, else 10 above 921,600,
\* else 15 above 307,200, else 20, and is within 5..20 for any track.
PixelCount == bsTrack.track_width * bsTrack.track_height

BatchSizeStepFunction ==
    bsResult # 0 =>
        /\ bsResult >= 5 /\ bsResult <= 20
        /\ bsTrack # NoTrack =>
              bsResult = (IF PixelCount > 2073600 THEN 5
                          ELSE IF PixelCount > 921600 THEN 10
                          ELSE IF PixelCount > 307200 THEN 15
                          ELSE 20)

\* the batch size of a track of exactly 1920x1080 pixels was computed
BatchSizeAtEdge == bsResult = 10 /\ bsTrack # NoTrack /\ PixelCount = 2073600

\* C10: in Scenario B the 30 samples are dropped across the scheduled
\* batches, the gate stays closed and no chunk is submitted.  ScenarioBDone:
\* the array was delivered and no batch of it is pending.
ScenarioBDone ==
    /\ mp4boxfile.arrays = 1
    /\ \A i \in 1..Len(timers) : timers[i].kind # "batch"
    /\ \A i \in 1..Len(tasks) : tasks[i].caller # "batch"

ScenarioBOutcome(size, batches) ==
    /\ videoTrack # NoTrack => calculateOptimalBatchSize(videoTrack) = size
    /\ ~keyframeReceived
    /\ \A d \in 1..Len(decoders) : decoders[d].first = "none"
    /\ ScenarioBDone => batchesRun = batches /\ samplesSkipped = 30

\* C10 as stated: batch size 5, 6 scheduled batches
ScenarioBAsStated == ScenarioBOutcome(5, 6)

\* C10 as the code behaves: batch size 10, 3 scheduled batches
ScenarioBAsCoded == ScenarioBOutcome(10, 3)

ScenarioBFinished == ScenarioBDone /\ batchesRun = 3 /\ samplesSkipped = 30

\* A render tick that gets past the test ending the loop.
LoopStopped == paused /\ frameQueue = <<>> /\ decodingFinished

TickRuns == RenderTick /\ ~LoopStopped

NotLater(T) == {i \in 1..Len(frameQueue) : frameQueue[i].timestamp <= T}

NewestTimestamp(T) ==
    CHOOSE t \in {frameQueue[i].timestamp : i \in NotLater(T)} :
        \A i \in NotLater(T) : frameQueue[i].timestamp <= t

\* C13: a render tick at position T selects a frame iff it is the newest
\* entry with timestamp <= T and that timestamp is greater than the last
\* rendered one or a seek is in progress; otherwise it selects nothing.
SelectsNewestEligible ==
    [][TickRuns =>
          IF /\ NotLater(currentTime) # {}
             /\ (seeking \/ NewestTimestamp(currentTime) > lastRenderedTimestamp)
          THEN /\ picked'.sel
               /\ picked'.timestamp = NewestTimestamp(currentTime)
               /\ frameQueue[picked'.index].timestamp = NewestTimestamp(currentTime)
          ELSE ~picked'.sel]_vars

\* a tick passed over an older entry, selected a newer one and left a frame
\* later than T queued
SelectedNewestOfSeveral ==
    /\ picked.sel
    /\ picked.index >= 2
    /\ \E i \in 1..Len(frameQueue) : frameQueue[i].timestamp > picked.T

\* C14: a tick that draws its frame makes the frame's timestamp the last
\* rendered one, releases and removes the selected entry and every older
\* one, and leaves the entries with a larger timestamp queued unchanged.
DrawEvictsUpToSelected ==
    [][TickRuns /\ picked'.drawn = "ok" =>
          LET ts == picked'.timestamp
              Later(e) == e.timestamp > ts
              gone == {frameQueue[i].frame : i \in NotLater(ts)}
          IN  /\ lastRenderedTimestamp' = ts
              /\ frameQueue' = SelectSeq(frameQueue, Later)
              /\ \A f \in 1..MaxFrames :
                    frameClosed'[f] = IF f \in gone THEN frameClosed[f] + 1
                                      ELSE frameClosed[f]]_vars

\* a drawn frame and an older one were released, a later one is still queued
DrewAndEvictedOlder ==
    /\ picked.drawn = "ok"
    /\ picked.index = 2
    /\ lastRenderedTimestamp = picked.timestamp
    /\ Cardinality({f \in 1..MaxFrames : frameClosed[f] = 1}) >= 2
    /\ Len(frameQueue) >= 1
    /\ frameQueue[1].timestamp > picked.T

\* C15: a tick without a candidate leaves the queue and the last rendered
\* timestamp as they are and releases nothing; it clears the canvas when a
\* seek is in progress and leaves it alone otherwise.
NoCandidateLeavesQueue ==
    [][TickRuns /\ ~picked'.sel =>
          /\ frameQueue' = frameQueue
          /\ lastRenderedTimestamp' = lastRenderedTimestamp
          /\ frameClosed' = frameClosed
          /\ surface' = (IF seeking THEN -1 ELSE surface)]_vars

\* during a seek a tick found only a later frame, after a frame had been
\* drawn, and the canvas is clear
ClearedWhileSeeking ==
    /\ seeking
    /\ ~picked.sel
    /\ picked.T > 0
    /\ surface = -1
    /\ \E f \in 1..MaxFrames : frameClosed[f] >= 1
    /\ Len(frameQueue) >= 1
    /\ frameQueue[1].timestamp > picked.T

\* C16: the render loop stops itself only when the video is paused, the
\* queue is empty and decoding has finished; any other tick requests the
\* next one, playing or paused.
LoopStopsOnlyWhenDone ==
    [][RenderTick => (currentFrameRequest' <=> ~LoopStopped)]_vars

\* the loop has rendered a frame and then stopped itself
LoopStoppedItself ==
    /\ ~currentFrameRequest
    /\ LoopStopped
    /\ lastRenderedTimestamp >= 0

\* C11: when a batch begins with the gate closed and the decoder configured
\* and holds a keyframe, the gate opens and decode() is called first with the
\* first keyframe of the batch, with no earlier sample, and then with the
\* samples after it in index order, up to the end of the batch unless the
\* batch ends in a reset trigger; the 20 samples of Scenario A (640x480,
\* sample 0 a keyframe) are all submitted by one batch.
KeyframesOfBatch ==
    {i \in lastBatch.start..(lastBatch.end - 1) : i \in lastBatch.arr.keys}

FirstKeyframe == CHOOSE k \in KeyframesOfBatch : \A i \in KeyframesOfBatch : k <= i

GateOpensAtFirstKeyframe ==
    /\ (lastBatch.n = 1 /\ ~lastBatch.gate /\ lastBatch.configured
            /\ KeyframesOfBatch # {}) =>
          /\ lastBatch.opened
          /\ lastBatch.calls # <<>>
          /\ \A j \in 1..Len(lastBatch.calls) :
                lastBatch.calls[j] = FirstKeyframe + j - 1
          /\ ~lastBatch.reset => Len(lastBatch.calls) = lastBatch.end - FirstKeyframe
    /\ (lastBatch.n = 1 /\ ~lastBatch.gate /\ lastBatch.configured
            /\ ~lastBatch.reset /\ videoTrack = MkTrack(640, 480, TRUE)
            /\ lastBatch.arr.len = 20 /\ lastBatch.arr.keys = {0}) =>
          /\ batchesRun = 1
          /\ lastBatch.calls = [j \in 1..20 |-> j - 1]

\* a batch found the gate closed and its first keyframe past its first
\* sample, and submitted from the keyframe to its end
GateOpenedInsideBatch ==
    /\ lastBatch.n = 1 /\ ~lastBatch.gate /\ lastBatch.configured
    /\ ~lastBatch.reset
    /\ KeyframesOfBatch # {}
    /\ FirstKeyframe > lastBatch.start
    /\ Len(lastBatch.calls) >= 2
    /\ Len(lastBatch.calls) = lastBatch.end - FirstKeyframe

\* C12: in a fresh session the reset is triggered on the 6th consecutive
\* decode error and not earlier, with the gate closed and a backoff delay of
\* 1000: while no reset has been triggered fewer than 6 consecutive errors
\* have occurred, and the first trigger comes at the 6th with delay 1000.
ResetOnSixthError ==
    /\ resetStreaks = <<>> => errorStreak < 6
    /\ resetStreaks # <<>> => resetStreaks[1] = 6 /\ resetDelays[1] = 1000

\* C17: every frame the decode engine has output was posted to the consumer
\* in exactly one newFrame message, whose timestamp is the frame's own, and
\* left the worker context with it: the worker owns no frame.
MessagesOf(f) ==
    {i \in 1..Len(posted) : posted[i].type = "newFrame" /\ posted[i].frame = f}

FrameHandedOverOnce ==
    /\ held = {}
    /\ \A f \in 1..Len(produced) :
          /\ Cardinality(MessagesOf(f)) = 1
          /\ \A i \in MessagesOf(f) : posted[i].timestamp = produced[f].timestamp

\* two frames with different timestamps were handed over
TwoFramesHandedOver ==
    /\ Len(produced) >= 2
    /\ produced[1].timestamp # produced[2].timestamp
    /\ MessagesOf(1) # {} /\ MessagesOf(2) # {}

\* C19: for each session at most one trackInfo is posted, only for a demuxer
\* that reported ready with a video track, and every newFrame of the session
\* comes after it.
TrackInfosOf(s) ==
    {i \in 1..Len(posted) : posted[i].type = "trackInfo" /\ posted[i].src = s}

TrackInfoOnceBeforeFrames ==
    \A s \in 1..MaxSessions :
        /\ Cardinality(TrackInfosOf(s)) <= 1
        /\ (TrackInfosOf(s) # {} /\ mp4boxfile.id = s) =>
              mp4boxfile.state = "started" /\ videoTrack # NoTrack
        /\ \A j \in 1..Len(posted) :
              (posted[j].type = "newFrame" /\ posted[j].src = s) =>
                  \E i \in TrackInfosOf(s) : i < j

\* both sessions posted their trackInfo and the second a frame after it
SecondSessionRelayed ==
    /\ TrackInfosOf(1) # {}
    /\ \E i \in TrackInfosOf(2) :
          \E j \in (i + 1)..Len(posted) :
              posted[j].type = "newFrame" /\ posted[j].src = 2

\* C20: initializeDecoder configures the decoder with the first of the
\* variants (1) codec string with description, (2) codec string without
\* description, (3) generic codec family that the engine accepts, for every
\* combination of answers; when the engine accepts none, no decoder instance
\* exists, the session is not configured and an error message was posted.
\* Without a description variants 1 and 2 are the same configuration.
Accepts(v, description) ==
    IF v = 2 /\ ~description THEN supports[1] ELSE supports[v]

FirstAccepted(description) ==
    IF \E v \in 1..3 : Accepts(v, description)
    THEN CHOOSE v \in 1..3 :
            /\ Accepts(v, description)
            /\ \A u \in 1..(v - 1) : ~Accepts(u, description)
    ELSE 0

ConfigFallback ==
    lastConfig.n = 1 =>
        /\ lastConfig.chosen = FirstAccepted(lastConfig.description)
        /\ lastConfig.chosen # 0 => lastConfig.decoder # Null /\ ~lastConfig.error
        /\ lastConfig.chosen = 0 =>
              /\ lastConfig.error
              /\ decoders = <<>>
              /\ videoDecoder = Null

\* the engine rejected the full configuration and accepted the two others,
\* and the decoder was configured with the codec string without description
FellBackToSecondVariant ==
    /\ lastConfig.n = 1
    /\ lastConfig.description
    /\ ~supports[1] /\ supports[2] /\ supports[3]
    /\ lastConfig.chosen = 2
    /\ videoDecoder = lastConfig.decoder
    /\ decoders[videoDecoder].state = "configured"

\* C18: a frame that entered the frame queue is closed exactly once when it
\* leaves it (render success, render failure, the queue cleared for a new
\* file): a frame still queued is open, a frame that left was closed once.
InQueue(f) == \E i \in 1..Len(frameQueue) : frameQueue[i].frame = f

FramesReleasedOnce ==
    \A f \in 1..framesReceived :
        frameClosed[f] = (IF InQueue(f) THEN 0 ELSE 1)

\* C21: at most one decode-engine instance is open (not closed) in every
\* reachable state of the worker, also when initializeDecoder is called
\* concurrently from the demuxer-ready handler, from a batch that found the
\* decoder unconfigured and from a reset.
OpenDecoders == {d \in 1..Len(decoders) : decoders[d].state # "closed"}

AtMostOneOpenDecoder == Cardinality(OpenDecoders) <= 1

\* C22: a batch that begins with the gate closed and holds no keyframe
\* forces the gate open exactly when more than 100 samples have been passed
\* over in the session so far, counted over all the arrays delivered, the
\* decoder is configured and the sample is non-empty; otherwise the gate
\* stays closed.
ForcedAfterHundredSkipped ==
    (lastBatch.n = 1 /\ ~lastBatch.gate /\ KeyframesOfBatch = {}) =>
        (lastBatch.opened <=>
            /\ lastBatch.skipped > 100
            /\ lastBatch.configured
            /\ lastBatch.start \notin lastBatch.arr.empty)

\* C23: a chunk is classified 'key' exactly when its sample is a keyframe,
\* or it is the sample at which the batch starts submitting with the gate
\* open, the decoder is configured and the payload is non-empty; every other
\* chunk is 'delta'.
KeyOnlyAtEntryPoint ==
    lastBatch.n = 1 =>
        \A j \in 1..Len(lastBatch.calls) :
            lastBatch.types[j] = "key" <=>
                \/ lastBatch.calls[j] \in lastBatch.arr.keys
                \/ /\ j = 1
                   /\ lastBatch.configured
                   /\ lastBatch.calls[j] \notin lastBatch.arr.empty

\* C24: a batch that finds the decoder unconfigured configures it and then
\* runs once more from the same start index; when the configuration fails
\* it submits no sample, counts the samples of its range as dropped and
\* schedules the batch that follows.
RetryAfterConfigure ==
    lastRetry.n = 1 =>
        IF lastRetry.configured
        THEN lastRetry.retried = lastRetry.start
        ELSE /\ lastRetry.submitted = 0
             /\ lastRetry.retried = -1
             /\ lastRetry.end < lastRetry.len =>
                   /\ lastRetry.next = lastRetry.end
                   /\ lastRetry.passed =
                         lastRetry.errors + (lastRetry.end - lastRetry.start)

\* C25: a decode error triggers the reset exactly when it is the one that
\* takes the errors of the current keyframe window past 5: the 6th decode
\* error since the gate last opened closes the gate with a reset trigger,
\* and no reset is triggered at fewer, whatever was counted before the gate
\* opened or for samples dropped without a decode error.
ResetWhenWindowExceeds ==
    /\ windowErrors <= ErrorThreshold + 1
    /\ windowErrors = ErrorThreshold + 1 => ~keyframeReceived
    /\ lastBatch.reset => windowErrors = ErrorThreshold + 1

\* C26: when the decoder becomes configured (initial configuration,
\* configuration before a batch, configuration after a reset) the error
\* counter used for the reset threshold is zero: a batch that runs on an
\* instance no chunk was yet submitted to is called with errorCount 0.
ErrorCountClearedOnConfigure ==
    (lastBatch.n = 1 /\ lastBatch.fresh) => lastBatch.errors = 0

\* C27: a reset closes the current engine instance and clears the gate,
\* then waits the backoff delay, then re-validates support and configures
\* again: while the delay of a reset trigger runs, the instance that was
\* current at the trigger is closed, and no chunk is submitted to it.
ResetClosesBeforeDelay ==
    /\ resetWait.pending =>
          resetWait.dec = Null \/ decoders[resetWait.dec].state = "closed"
    /\ ~resetWait.submitted

\* C28: the reset-attempt count is zero when a session begins and after a
\* batch that ran on a configured decoder and completed without a reset
\* trigger, so that a reset trigger in the batch following such a batch uses
\* the delay 1000.
BatchRuns == batchesRun' = batchesRun + 1 /\ IsConfigured(W)

AttemptsClearedByCleanBatch ==
    [][/\ processingId' # processingId => decoderResetAttempts' = 0
       /\ (BatchRuns /\ ~lastBatch'.reset) => decoderResetAttempts' = 0
       /\ (BatchRuns /\ lastBatch'.reset /\ lastBatch.n = 1 /\ ~lastBatch.reset) =>
              resetDelays'[Len(resetDelays')] = 1000]_vars

\* C29: when the teardown that a stop, the quiescence check or the end of
\* stream started comes to its end, with the flush resolved or rejected, no
\* decode-engine instance is left open.
SessionEndsClosed ==
    [][\A s \in Sessions :
          completion'[s].emits > completion[s].emits =>
              \A d \in 1..Len(decoders') : decoders'[d].state = "closed"]_vars

\* C30: the quiescence check marks the session finished only when more than
\* 5000 ms have passed since the last samples arrived (or since the session
\* began) and the session has received at least one sample; with no sample
\* received it never does.
QuiescenceNeedsSamples ==
    [][(FireCheck /\ ~isProcessingComplete /\ isProcessingComplete') =>
          (sinceLastSample' > 5000 /\ sampleCount > 0)]_vars

\* the quiescence check, and no other trigger, has finished the session
QuiescenceFinishedSession ==
    /\ processingId = 1
    /\ isProcessingComplete
    /\ completion[1] = [fired |-> 1, runs |-> 1, emits |-> 1]
    /\ 1 \notin stopHandled
    /\ ~mp4boxfile.eos
    /\ sampleCount > 0
    /\ sinceLastSample > 5000

\* C31: a tick whose selected frame fails to upload or draw releases and
\* removes that frame alone (the older and the newer entries stay queued in
\* their order, nothing is put back), leaves the last rendered timestamp as
\* it is and requests the next tick.
RenderFailureEvictsOne ==
    [][TickRuns /\ picked'.drawn = "failed" =>
          LET i == picked'.index
          IN  /\ Len(frameQueue') = Len(frameQueue) - 1
              /\ \A j \in 1..Len(frameQueue') :
                    frameQueue'[j] = frameQueue[IF j < i THEN j ELSE j + 1]
              /\ \A f \in 1..MaxFrames :
                    frameClosed'[f] = IF f = frameQueue[i].frame
                                      THEN frameClosed[f] + 1 ELSE frameClosed[f]
              /\ lastRenderedTimestamp' = lastRenderedTimestamp
              /\ currentFrameRequest']_vars

\* the draw of the second of three queued frames failed: the older and the
\* later frame are still queued, one frame was released, nothing was rendered
FailedDrawKeptNeighbours ==
    /\ picked.drawn = "failed"
    /\ picked.index = 2
    /\ Len(frameQueue) = 2
    /\ frameQueue[1].timestamp <= picked.timestamp
    /\ frameQueue[2].timestamp > picked.T
    /\ Cardinality({f \in 1..MaxFrames : frameClosed[f] = 1}) = 1
    /\ lastRenderedTimestamp = -1
    /\ currentFrameRequest

\* C32: the eviction of the render step bounds the frames the consumer
\* holds: in every reachable state the frame queue holds fewer frames than
\* the worker hands over in a run, whatever the speeds of decoding and of
\* the playback clock.
FrameQueueBounded == Len(frameQueue) < MaxFrames

\* C33: the batches of one sample array of length n, with batch size b: each
\* covers at most b consecutive samples, the first starts at 0 and each next
\* one where the previous ended, there are at most ceil(n/b) of them, at most
\* one batch of the array is waiting to run, it starts where the last one
\* ended, and none is waiting once index n is reached; one step of the
\* worker runs at most one batch, and a batch calls decode() only with
\* samples of its range.
WaitingBatches(s, q) ==
    {<<"timer", i>> : i \in {j \in 1..Len(timers) :
                                /\ timers[j].kind = "batch"
                                /\ timers[j].arr.sess = s
                                /\ timers[j].arr.seq = q}}
    \cup
    {<<"task", i>> : i \in {j \in 1..Len(tasks) :
                               /\ tasks[j].caller = "batch"
                               /\ tasks[j].arr.sess = s
                               /\ tasks[j].arr.seq = q}}

WaitingStart(x) == IF x[1] = "timer" THEN timers[x[2]].start ELSE tasks[x[2]].start

ChainOfArray(s, q) ==
    LET Mine(e) == e.sess = s /\ e.seq = q
    IN  SelectSeq(chain, Mine)

ChainContiguous ==
    LET b == calculateOptimalBatchSize(videoTrack)
    IN  /\ \A s \in Sessions, q \in 1..MaxResetArrays :
              LET c == ChainOfArray(s, q)
                  reached == IF c = <<>> THEN 0 ELSE c[Len(c)].end
              IN  /\ \A k \in 1..Len(c) :
                        /\ c[k].start = (IF k = 1 THEN 0 ELSE c[k - 1].end)
                        /\ c[k].start < c[k].end
                        /\ c[k].end = Min(c[k].start + b, c[k].len)
                  /\ c # <<>> => (Len(c) - 1) * b < c[1].len
                  /\ Cardinality(WaitingBatches(s, q)) <= 1
                  /\ \A x \in WaitingBatches(s, q) : WaitingStart(x) = reached
                  /\ (c # <<>> /\ reached = c[1].len) => WaitingBatches(s, q) = {}
        /\ \A k \in 1..Len(lastBatch.calls) :
              /\ lastBatch.calls[k] >= lastBatch.start
              /\ lastBatch.calls[k] < lastBatch.end

OneBatchPerTick ==
    [][Len(chain') <= Len(chain) + 1 /\ ChainContiguous']_vars

\* the four batches of an array of 17 samples at batch size 5 have run, the
\* first one on a decoder it had to configure, and none is waiting
ChainOfFourDone ==
    /\ Len(chain) = 4
    /\ chain[4].end = 17
    /\ chain[1].sub
    /\ lastRetry.configured
    /\ WaitingBatches(1, 1) = {}

\* C34: once the teardown of a completion trigger (stop, quiescence, end of
\* stream) has posted decodeComplete for the session, no step of that
\* session submits a chunk to a decoder or posts a newFrame, also when batch
\* timers or a reset timer set before the completion fire afterwards.
NothingAfterDecodeComplete ==
    [][(completion[processingId].emits > 0 /\ processingId' = processingId) =>
          /\ ~(Len(chain') > Len(chain) /\ chain'[Len(chain')].sub)
          /\ ~(Len(posted') > Len(posted)
               /\ posted'[Len(posted')].type = "newFrame")]_vars

\* C35: within a session chunks are submitted in the order in which the
\* demuxer delivered the samples: when it delivers the arrays A then B, no
\* batch of A submits a sample after a batch of B has submitted one.
SubmittedInArrivalOrder ==
    \A j, k \in 1..Len(chain) :
        (/\ j < k
         /\ chain[j].sub
         /\ chain[k].sub
         /\ chain[j].sess = chain[k].sess) => chain[j].seq <= chain[k].seq

\* C36: the first chunk submitted to any decode-engine instance (the initial
\* one, one configured before a batch, one configured by a reset) is of type
\* 'key': no instance receives a 'delta' chunk first.
FirstChunkIsKey ==
    \A d \in 1..Len(decoders) : decoders[d].first # "delta"

\* after a reset trigger and a configuration before a batch, a second
\* instance has been given its first chunk, built from a sample that is not
\* a keyframe
SecondInstanceFed ==
    /\ Len(decoders) >= 2
    /\ decoders[1].first = "key"
    /\ resetDelays # <<>>
    /\ lastRetry.configured
    /\ videoDecoder = Len(decoders)
    /\ decoders[videoDecoder].first = "key"
    /\ lastBatch.fresh
    /\ lastBatch.calls # <<>>
    /\ lastBatch.calls[1] \notin lastBatch.arr.keys

\* C37: when the initialize handler of a session that supersedes another one
\* has set up the new demuxer, the new session is not complete, its abort
\* signal is not aborted, its quiescence interval is running and no
\* decodeComplete has been posted in it: no completion trigger of the
\* previous session (abort listener, end-of-stream timer, quiescence
\* interval) has acted on it.
NewSessionStartsLive ==
    [][(/\ processingId' >= 2
        /\ mp4boxfile.id # processingId'
        /\ mp4boxfile'.id = processingId'
        /\ mp4boxfile'.state = "parsing") =>
          /\ ~isProcessingComplete'
          /\ abortController' = processingId'
          /\ processingId' \notin aborted'
          /\ processingId' \in checkIntervals'
          /\ emitted'[processingId'] = 0]_vars

\* C38: no sample delivered by the demuxer of a superseded session is
\* submitted to a decoder of the session that superseded it: every chunk
\* queued in an instance was built from a sample of the session in which the
\* instance was constructed.
NoChunkFromSupersededSession ==
    \A d \in 1..Len(decoders) :
        \A k \in 1..Len(decoders[d].pending) :
            decoders[d].pending[k].src = decoders[d].sess

\* C39: at most one render tick is pending in the consumer, over any
\* sequence of play, seeked, newFrame, processVideo and tick events, and the
\* handle currentFrameRequest is held exactly while one is: after the loop
\* has ended itself or has been cancelled the handle is null.
OneRenderLoop ==
    animationFrames = (IF currentFrameRequest THEN 1 ELSE 0)

\* the loop ended itself, play started it again, and a seek and a frame
\* arrived while its tick was pending
LoopRestarted ==
    /\ currentFrameRequest
    /\ animationFrames = 1
    /\ decodingFinished
    /\ ~paused
    /\ seeking
    /\ lastRenderedTimestamp = -1
    /\ \E f \in 1..MaxFrames : frameClosed[f] = 1
    /\ frameQueue # <<>>
====
